---- MODULE Spec2Model ----
(***************************************************************************)
(* Model of scripts/mitm_codex_sse_logger.py: a mitmproxy addon with two   *)
(* host-invoked callbacks, request(flow) and response(flow), the SSE       *)
(* generator _iter_sse_payloads and the field lookups on decoded payloads. *)
(*                                                                         *)
(* JSON values are tagged records, text is a sequence of tokens, and a     *)
(* Python exception is a value [raise |-> type, at |-> source line].       *)
(***************************************************************************)
EXTENDS Integers, Sequences, FiniteSets, TLC

VARIABLES
    flow,              \* the host's flow object handed to the callback
    cb,                \* which callback the host is running
    pc,                \* position inside the callback
    calls,             \* callbacks the host has invoked on this flow so far
    prev,              \* record of the previous callback on this flow
    trace,             \* observable events of the running callback, in order
    file,              \* contents of /tmp/mitm_last_body.txt
    body,              \* local `body`
    lines,             \* body.splitlines() inside the generator
    idx,               \* generator position: lines already consumed
    payload,           \* local `payload` of the response loop / request
    event_type,        \* local `event_type`
    model,             \* local `model`
    reasoning_effort,  \* local `reasoning_effort`
    exc                \* exception propagating out of the callback, if any

vars == <<flow, cb, pc, calls, prev, trace, file, body, lines, idx,
          payload, event_type, model, reasoning_effort, exc>>

---------------------------------------------------------------------------
(* Bounds *)

MaxLines == 3
MaxCalls == 2

---------------------------------------------------------------------------
(* Python / JSON values *)

None == [null |-> TRUE]
Str(s) == [str |-> s]
Num(n) == [num |-> n]
Bool(b) == [bool |-> b]
Arr(a) == [arr |-> a]
\* a dict is the sequence of its <<key, value>> items, in insertion order
Obj(items) == [obj |-> items]

Unset == [unset |-> TRUE]
Raise(type, at) == [raise |-> type, at |-> at]
IsRaise(v) == "raise" \in DOMAIN v

\* isinstance(v, dict)
IsDict(v) == "obj" \in DOMAIN v

\* Python truth value of a JSON value (`if model:`, `a or b`)
Truthy(v) ==
    IF "null" \in DOMAIN v THEN FALSE
    ELSE IF "str" \in DOMAIN v THEN v.str # ""
    ELSE IF "num" \in DOMAIN v THEN v.num # 0
    ELSE IF "bool" \in DOMAIN v THEN v.bool
    ELSE IF "arr" \in DOMAIN v THEN v.arr # <<>>
    ELSE IF "obj" \in DOMAIN v THEN v.obj # <<>>
    ELSE TRUE

\* `a or b`
PyOr(a, b) == IF Truthy(a) THEN a ELSE b

HasKey(d, k) == \E i \in 1..Len(d.obj) : d.obj[i][1] = k

\* dict.get(k, default)
GetD(d, k, default) ==
    IF HasKey(d, k)
    THEN d.obj[CHOOSE i \in 1..Len(d.obj) : d.obj[i][1] = k][2]
    ELSE default

\* dict.get(k)
Get(d, k) == GetD(d, k, None)

\* list(dict.keys())
Keys(d) == [i \in 1..Len(d.obj) |-> d.obj[i][1]]

---------------------------------------------------------------------------
(* Text: a str is a sequence of tokens *)

Tok(c) == [c |-> c]
WS == Tok(" ")
NL == Tok("\\n")
DATA == Tok("data:")
DONE == Tok("[DONE]")
JUNK == Tok("{not json")
EVENT == Tok("event:")
\* the JSON text that serialises value v
J(v) == [json |-> v]

Text(t) == [text |-> t]

RECURSIVE SplitFrom(_, _, _)
SplitFrom(s, cur, acc) ==
    IF s = <<>> THEN (IF cur = <<>> THEN acc ELSE Append(acc, cur))
    ELSE IF Head(s) = NL THEN SplitFrom(Tail(s), <<>>, Append(acc, cur))
    ELSE SplitFrom(Tail(s), Append(cur, Head(s)), acc)

\* str.splitlines()
SplitLines(s) == SplitFrom(s, <<>>, <<>>)

RECURSIVE LStrip(_)
LStrip(s) == IF s # <<>> /\ Head(s) = WS THEN LStrip(Tail(s)) ELSE s

RECURSIVE RStrip(_)
RStrip(s) ==
    IF s # <<>> /\ s[Len(s)] = WS THEN RStrip(SubSeq(s, 1, Len(s) - 1)) ELSE s

\* str.strip()
Strip(s) == RStrip(LStrip(s))

\* line.startswith("data:")
StartsWithData(line) == line # <<>> /\ Head(line) = DATA

\* line[len("data:"):].strip()
PayloadOf(line) == Strip(Tail(line))

\* json.loads on a str: one JSON text, whitespace around it allowed
JsonLoadsStr(t) ==
    IF Len(Strip(t)) = 1 /\ "json" \in DOMAIN Strip(t)[1]
    THEN Strip(t)[1].json
    ELSE Raise("JSONDecodeError", 0)

\* json.loads on whatever get_text() returned
JsonLoads(b) ==
    IF "text" \in DOMAIN b THEN JsonLoadsStr(b.text) ELSE Raise("TypeError", 0)

---------------------------------------------------------------------------
(* _extract_model and the reasoning lookup of response() *)

\* _extract_model looking at response.model first
ExtractModelResponseFirst(p) ==
    IF IsDict(Get(p, "response")) /\ Truthy(Get(Get(p, "response"), "model"))
    THEN Get(Get(p, "response"), "model")
    ELSE Get(p, "model")

\* _extract_model(payload)
ExtractModel(p) ==
    IF Truthy(Get(p, "model")) THEN Get(p, "model")
    ELSE IF IsDict(Get(p, "response")) THEN Get(Get(p, "response"), "model")
    ELSE None

\* response.get("reasoning") or response.get("metadata", {}).get("reasoning")
ResolveReasoning(r) ==
    IF Truthy(Get(r, "reasoning")) THEN Get(r, "reasoning")
    ELSE IF IsDict(GetD(r, "metadata", Obj(<<>>)))
         THEN Get(GetD(r, "metadata", Obj(<<>>)), "reasoning")
         ELSE Raise("AttributeError", 89)

\* reasoning.get("effort") or reasoning.get("effort_level")
EffortOf(reasoning) == PyOr(Get(reasoning, "effort"), Get(reasoning, "effort_level"))

\* the value of reasoning_effort after lines 86-95, or the exception raised there
ReasoningEffort(p) ==
    IF ~IsDict(Get(p, "response")) THEN None
    ELSE IF IsRaise(ResolveReasoning(Get(p, "response")))
         THEN ResolveReasoning(Get(p, "response"))
    ELSE IF IsDict(ResolveReasoning(Get(p, "response")))
         THEN EffortOf(ResolveReasoning(Get(p, "response")))
    ELSE None

\* parsed.get("type", "unknown") on whatever json.loads returned
EventTypeOf(parsed) ==
    IF IsDict(parsed) THEN GetD(parsed, "type", Str("unknown"))
    ELSE Raise("AttributeError", 40)

---------------------------------------------------------------------------
(* _looks_like_codex *)

\* needle in url
Contains(url, needle) == \E i \in 1..Len(url) : url[i] = needle

\* _looks_like_codex with `or` for `and`
LooksLikeCodexEither(f) ==
    Contains(f.url, "chatgpt.com") \/ Contains(f.url, "/backend-api/codex")

LooksLikeCodex(f) ==
    Contains(f.url, "chatgpt.com") /\ Contains(f.url, "/backend-api/codex")

---------------------------------------------------------------------------
(* Inputs the host can deliver *)

FlowId == "f1"

URLs ==
    { <<"https://", "chatgpt.com", "/backend-api/codex", "/responses">>,
      <<"https://", "chatgpt.com", "/other">>,
      <<"https://", "example.com", "/backend-api/codex">>,
      <<"https://", "example.com", "/other">>,
      <<"https://", "ChatGPT.com", "/backend-api/codex">> }

Methods == {Str("POST"), Str("GET")}

\* SSE payloads
P_model ==
    Obj(<< <<"type", Str("response.created")>>, <<"model", Str("gpt-5")>> >>)
P_resp ==
    Obj(<< <<"response",
             Obj(<< <<"model", Str("gpt-5-mini")>>,
                    <<"reasoning", Obj(<< <<"effort", Str("high")>> >>)>> >>)>> >>)
P_ping ==
    Obj(<< <<"type", Str("ping")>>, <<"model", Str("")>> >>)
P_meta ==
    Obj(<< <<"type", Str("response.completed")>>, <<"model", Str("gpt-5")>>,
           <<"response", Obj(<< <<"metadata", Str("x")>> >>)>> >>)

\* raw lines of a response body
RawLines ==
    { <<>>,
      <<EVENT, WS, DATA, J(P_model)>>,
      <<WS, DATA, WS, DONE, WS>>,
      <<DATA, WS>>,
      <<DATA, WS, JUNK>>,
      <<DATA, J(Num(5))>>,
      <<WS, DATA, WS, J(P_model), WS>>,
      <<DATA, J(P_resp)>>,
      <<DATA, J(P_ping)>>,
      <<DATA, J(P_meta)>> }

RECURSIVE JoinLines(_)
JoinLines(ls) ==
    IF ls = <<>> THEN <<>>
    ELSE IF Len(ls) = 1 THEN ls[1]
    ELSE ls[1] \o <<NL>> \o JoinLines(Tail(ls))

LineSeqs == UNION { [1..n -> RawLines] : n \in 0..MaxLines }

\* what flow.response.get_text(strict=False) can return
ResponseBodies == {None} \cup { Text(JoinLines(ls)) : ls \in LineSeqs }

R_full ==
    Obj(<< <<"prompt_cache_key", Str("abc")>>,
           <<"include", Arr(<<Str("x")>>)>>,
           <<"extra", Num(1)>> >>)

\* what flow.request.get_text() can return
RequestBodies ==
    { None, Text(<<>>), Text(<<JUNK>>),
      Text(<<J(R_full)>>), Text(<<WS, J(Obj(<<>>)), WS>>),
      Text(<<J(Arr(<<Str("x")>>))>>), Text(<<J(Str("s"))>>),
      Text(<<J(Num(5))>>), Text(<<J(None)>>) }

NoPrev == [none |-> TRUE]
NoFile == [missing |-> TRUE]

---------------------------------------------------------------------------
(* Events the callbacks make observable *)

SummaryLine(f) ==
    [ev |-> "codex_response", flow |-> f.id, status |-> f.status,
     headers |-> f.headers]
ReadEvent == [ev |-> "get_text"]
WriteEvent(ok) == [ev |-> "write_text", ok |-> ok]
DecodeEvent(i) == [ev |-> "json.loads", line |-> i]
WarnLine(i, chunk) ==
    [ev |-> "warn", msg |-> "failed to decode SSE chunk", line |-> i,
     chunk |-> chunk]
YieldEvent(i, et, p) ==
    [ev |-> "yield", line |-> i, event_type |-> et, payload |-> p]
ModelLine(f, et, m, re) ==
    [ev |-> "codex_sse_model", flow |-> f.id, event |-> et, model |-> m,
     reasoning |-> re, url |-> f.url]
RequestLine(f, p) ==
    [ev |-> "codex_request", flow |-> f.id,
     prompt_cache_key |-> Get(p, "prompt_cache_key"),
     include |-> Get(p, "include"), keys |-> Keys(p)]

IsLog(e) == e.ev \in {"codex_response", "warn", "codex_sse_model", "codex_request"}

\* the lines the host's logging sink received, in order
LogOf(t) == SelectSeq(t, IsLog)

---------------------------------------------------------------------------
(* The host hands a flow to a callback *)

NewFlow(url) ==
    [id |-> FlowId, url |-> url, status |-> Num(200),
     headers |-> Obj(<< <<"content-type", Str("text/event-stream")>> >>),
     method |-> Unset, response |-> Unset, reqText |-> Unset,
     respText |-> Unset]

\* a field of the flow is fixed from the first time a callback reads it
Reading(field, values) == IF field = Unset THEN values ELSE {field}

Init ==
    /\ flow \in { NewFlow(u) : u \in URLs }
    /\ cb \in {"request", "response"}
    /\ pc = "entry"
    /\ calls = 1
    /\ prev = NoPrev
    /\ trace = <<>>
    /\ file = NoFile
    /\ body = Unset
    /\ lines = <<>>
    /\ idx = 0
    /\ payload = Unset
    /\ event_type = Unset
    /\ model = Unset
    /\ reasoning_effort = Unset
    /\ exc = Unset

Terminated == pc \in {"done", "raised"}

\* the host invokes the same callback on the same flow again (a replay)
Deliver ==
    /\ Terminated
    /\ calls < MaxCalls
    /\ calls' = calls + 1
    /\ prev' = [log |-> LogOf(trace), outcome |-> pc]
    /\ pc' = "entry"
    /\ trace' = <<>>
    /\ body' = Unset
    /\ lines' = <<>>
    /\ idx' = 0
    /\ payload' = Unset
    /\ event_type' = Unset
    /\ model' = Unset
    /\ reasoning_effort' = Unset
    /\ exc' = Unset
    /\ UNCHANGED <<flow, cb, file>>

---------------------------------------------------------------------------
(* response(flow) *)

\* response() with the summary line left out
ResponseEntryNoSummary ==
    /\ cb = "response" /\ pc = "entry"
    /\ \E has \in Reading(flow.response, {Bool(TRUE), Bool(FALSE)}) :
         /\ flow' = [flow EXCEPT !.response = has]
         /\ pc' = IF has.bool THEN "classify" ELSE "done"
    /\ UNCHANGED <<cb, calls, prev, trace, file, body, lines, idx, payload,
                   event_type, model, reasoning_effort, exc>>

\* lines 64-72: the guard on flow.response and the summary line
ResponseEntry ==
    /\ cb = "response" /\ pc = "entry"
    /\ \E has \in Reading(flow.response, {Bool(TRUE), Bool(FALSE)}) :
         /\ flow' = [flow EXCEPT !.response = has]
         /\ IF has.bool
            THEN trace' = Append(trace, SummaryLine(flow)) /\ pc' = "classify"
            ELSE trace' = trace /\ pc' = "done"
    /\ UNCHANGED <<cb, calls, prev, file, body, lines, idx, payload,
                   event_type, model, reasoning_effort, exc>>

\* lines 74-75
ResponseClassify ==
    /\ cb = "response" /\ pc = "classify"
    /\ pc' = IF LooksLikeCodex(flow) THEN "read" ELSE "done"
    /\ UNCHANGED <<flow, cb, calls, prev, trace, file, body, lines, idx,
                   payload, event_type, model, reasoning_effort, exc>>

\* line 77
ResponseReadBody ==
    /\ cb = "response" /\ pc = "read"
    /\ \E b \in Reading(flow.respText, ResponseBodies) :
         /\ flow' = [flow EXCEPT !.respText = b]
         /\ body' = b
    /\ trace' = Append(trace, ReadEvent)
    /\ pc' = "write"
    /\ UNCHANGED <<cb, calls, prev, file, lines, idx, payload, event_type,
                   model, reasoning_effort, exc>>

\* the side-file write without its try/except: a failure propagates
ResponseWriteFileNoCatch ==
    /\ cb = "response" /\ pc = "write"
    /\ \E ok \in (IF body = None THEN {FALSE} ELSE BOOLEAN) :
         /\ file' = IF ok THEN body ELSE file
         /\ trace' = Append(trace, WriteEvent(ok))
         /\ pc' = IF ok THEN "iterate" ELSE "raised"
         /\ exc' = IF ok THEN exc ELSE Raise("OSError", 81)
    /\ UNCHANGED <<flow, cb, calls, prev, body, lines, idx, payload,
                   event_type, model, reasoning_effort>>

\* lines 78-83: write_text(None) raises TypeError, any other write may fail;
\* every exception is swallowed
ResponseWriteFile ==
    /\ cb = "response" /\ pc = "write"
    /\ \E ok \in (IF body = None THEN {FALSE} ELSE BOOLEAN) :
         /\ file' = IF ok THEN body ELSE file
         /\ trace' = Append(trace, WriteEvent(ok))
    /\ pc' = "iterate"
    /\ UNCHANGED <<flow, cb, calls, prev, body, lines, idx, payload,
                   event_type, model, reasoning_effort, exc>>

---------------------------------------------------------------------------
(* _iter_sse_payloads(body), driven by the for loop of response() *)

\* line 33 without the [DONE] test
SkipPayloadEmptyOnly(pl) == pl = <<>>

\* line 33: not payload or payload == "[DONE]"
SkipPayload(pl) == pl = <<>> \/ pl = <<DONE>>

\* the line the generator looks at next, stripped (line 29)
NextLine == Strip(lines[idx + 1])

GenUnchanged ==
    UNCHANGED <<flow, cb, calls, prev, file, body, lines, model,
                reasoning_effort>>

\* line 84, first next(): the generator body starts at body.splitlines()
GenStart ==
    /\ cb = "response" /\ pc = "iterate"
    /\ IF body = None
       THEN /\ exc' = Raise("AttributeError", 28)
            /\ pc' = "raised"
            /\ lines' = lines
       ELSE /\ lines' = SplitLines(body.text)
            /\ pc' = "gen"
            /\ exc' = exc
    /\ idx' = 0
    /\ UNCHANGED <<flow, cb, calls, prev, trace, file, body, payload,
                   event_type, model, reasoning_effort>>

\* lines 30-31: not a data: line
GenSkipLine ==
    /\ cb = "response" /\ pc = "gen" /\ idx < Len(lines)
    /\ ~StartsWithData(NextLine)
    /\ idx' = idx + 1
    /\ UNCHANGED <<pc, trace, payload, event_type, exc>>
    /\ GenUnchanged

\* lines 32-34: empty payload or the [DONE] sentinel
GenSkipPayload ==
    /\ cb = "response" /\ pc = "gen" /\ idx < Len(lines)
    /\ StartsWithData(NextLine)
    /\ SkipPayload(PayloadOf(NextLine))
    /\ idx' = idx + 1
    /\ UNCHANGED <<pc, trace, payload, event_type, exc>>
    /\ GenUnchanged

\* lines 35-39: json.loads raises JSONDecodeError, a warning is logged
GenDecodeFail ==
    /\ cb = "response" /\ pc = "gen" /\ idx < Len(lines)
    /\ StartsWithData(NextLine)
    /\ ~SkipPayload(PayloadOf(NextLine))
    /\ IsRaise(JsonLoadsStr(PayloadOf(NextLine)))
    /\ trace' = trace \o <<DecodeEvent(idx + 1),
                           WarnLine(idx + 1, PayloadOf(NextLine))>>
    /\ idx' = idx + 1
    /\ UNCHANGED <<pc, payload, event_type, exc>>
    /\ GenUnchanged

\* line 40 on a decoded value that has no .get
GenRaise ==
    /\ cb = "response" /\ pc = "gen" /\ idx < Len(lines)
    /\ StartsWithData(NextLine)
    /\ ~SkipPayload(PayloadOf(NextLine))
    /\ ~IsRaise(JsonLoadsStr(PayloadOf(NextLine)))
    /\ IsRaise(EventTypeOf(JsonLoadsStr(PayloadOf(NextLine))))
    /\ trace' = Append(trace, DecodeEvent(idx + 1))
    /\ exc' = EventTypeOf(JsonLoadsStr(PayloadOf(NextLine)))
    /\ pc' = "raised"
    /\ idx' = idx + 1
    /\ UNCHANGED <<payload, event_type>>
    /\ GenUnchanged

\* lines 40-41 and the loop header of line 84 binding the yielded pair
GenYield ==
    /\ cb = "response" /\ pc = "gen" /\ idx < Len(lines)
    /\ StartsWithData(NextLine)
    /\ ~SkipPayload(PayloadOf(NextLine))
    /\ ~IsRaise(JsonLoadsStr(PayloadOf(NextLine)))
    /\ ~IsRaise(EventTypeOf(JsonLoadsStr(PayloadOf(NextLine))))
    /\ payload' = JsonLoadsStr(PayloadOf(NextLine))
    /\ event_type' = EventTypeOf(JsonLoadsStr(PayloadOf(NextLine)))
    /\ trace' = trace \o <<DecodeEvent(idx + 1),
                           YieldEvent(idx + 1, event_type', payload')>>
    /\ pc' = "loop"
    /\ idx' = idx + 1
    /\ UNCHANGED exc
    /\ GenUnchanged

\* the loop of line 28 runs out: StopIteration ends the for loop of line 84
GenExhausted ==
    /\ cb = "response" /\ pc = "gen" /\ idx = Len(lines)
    /\ pc' = "done"
    /\ UNCHANGED <<flow, cb, calls, prev, trace, file, body, lines, idx,
                   payload, event_type, model, reasoning_effort, exc>>

\* lines 85-105: one pass of the loop body
ResponseLoopBody ==
    /\ cb = "response" /\ pc = "loop"
    /\ model' = ExtractModel(payload)
    /\ IF IsRaise(ReasoningEffort(payload))
       THEN /\ reasoning_effort' = None
            /\ exc' = ReasoningEffort(payload)
            /\ pc' = "raised"
            /\ trace' = trace
       ELSE /\ reasoning_effort' = ReasoningEffort(payload)
            /\ trace' = IF Truthy(model')
                        THEN Append(trace, ModelLine(flow, event_type, model',
                                                     reasoning_effort'))
                        ELSE trace
            /\ pc' = "gen"
            /\ exc' = exc
    /\ UNCHANGED <<flow, cb, calls, prev, file, body, lines, idx, payload,
                   event_type>>

---------------------------------------------------------------------------
(* request(flow) *)

\* lines 111-112
RequestClassify ==
    /\ cb = "request" /\ pc = "entry"
    /\ pc' = IF LooksLikeCodex(flow) THEN "method" ELSE "done"
    /\ UNCHANGED <<flow, cb, calls, prev, trace, file, body, lines, idx,
                   payload, event_type, model, reasoning_effort, exc>>

\* lines 114-115
RequestMethod ==
    /\ cb = "request" /\ pc = "method"
    /\ \E m \in Reading(flow.method, Methods) :
         /\ flow' = [flow EXCEPT !.method = m]
         /\ pc' = IF m # Str("POST") THEN "done" ELSE "parse"
    /\ UNCHANGED <<cb, calls, prev, trace, file, body, lines, idx, payload,
                   event_type, model, reasoning_effort, exc>>

\* lines 117-121: every exception of get_text() and json.loads is swallowed
RequestParse ==
    /\ cb = "request" /\ pc = "parse"
    /\ \E b \in Reading(flow.reqText, RequestBodies) :
         /\ flow' = [flow EXCEPT !.reqText = b]
         /\ body' = b
         /\ IF IsRaise(JsonLoads(b))
            THEN pc' = "done" /\ payload' = payload
            ELSE pc' = "log" /\ payload' = JsonLoads(b)
    /\ trace' = Append(trace, ReadEvent)
    /\ UNCHANGED <<cb, calls, prev, file, lines, idx, event_type, model,
                   reasoning_effort, exc>>

\* lines 123-129: payload.get and payload.keys on whatever json.loads returned
RequestLog ==
    /\ cb = "request" /\ pc = "log"
    /\ IF IsDict(payload)
       THEN /\ trace' = Append(trace, RequestLine(flow, payload))
            /\ pc' = "done"
            /\ exc' = exc
       ELSE /\ exc' = Raise("AttributeError", 126)
            /\ pc' = "raised"
            /\ trace' = trace
    /\ UNCHANGED <<flow, cb, calls, prev, file, body, lines, idx, payload,
                   event_type, model, reasoning_effort>>

---------------------------------------------------------------------------

Next ==
    \/ ResponseEntry
    \/ ResponseClassify
    \/ ResponseReadBody
    \/ ResponseWriteFile
    \/ GenStart
    \/ GenSkipLine
    \/ GenSkipPayload
    \/ GenDecodeFail
    \/ GenRaise
    \/ GenYield
    \/ GenExhausted
    \/ ResponseLoopBody
    \/ RequestClassify
    \/ RequestMethod
    \/ RequestParse
    \/ RequestLog
    \/ Deliver

Spec == Init /\ [][Next]_vars

---------------------------------------------------------------------------
(* The field lookups on their own: the loop body applied to one payload *)

\* an optional item of a dict
Opt(k, V) == {<<>>} \cup { << <<k, v>> >> : v \in V }

ReasoningObjs ==
    { Obj(a \o b) : a \in Opt("effort", {None, Str(""), Str("high")}),
                    b \in Opt("effort_level", {Str("low")}) }
ReasoningVals == {None, Str("auto")} \cup ReasoningObjs
MetadataVals ==
    {None, Str("x")} \cup { Obj(a) : a \in Opt("reasoning", ReasoningVals) }
ResponseObjs ==
    { Obj(a \o b \o c) : a \in Opt("model", {Str(""), Str("gpt-5-mini")}),
                         b \in Opt("reasoning", ReasoningVals),
                         c \in Opt("metadata", MetadataVals) }
ResponseVals == {None, Str("r")} \cup ResponseObjs
Payloads ==
    { Obj(t \o m \o r) :
        t \in Opt("type", {Str("response.completed")}),
        m \in Opt("model", {None, Str(""), Num(0), Str("gpt-5")}),
        r \in Opt("response", ResponseVals) }

ClassifiedFlow(p) ==
    [NewFlow(<<"https://", "chatgpt.com", "/backend-api/codex", "/responses">>)
        EXCEPT !.response = Bool(TRUE), !.respText = Text(<<DATA, J(p)>>)]

\* response() on the body "data: <payload>", at the moment the generator has
\* yielded the payload to the loop body
InitExtract ==
    \E p \in Payloads :
        /\ flow = ClassifiedFlow(p)
        /\ cb = "response"
        /\ pc = "loop"
        /\ calls = 1
        /\ prev = NoPrev
        /\ trace = <<SummaryLine(flow), ReadEvent, WriteEvent(TRUE),
                     DecodeEvent(1), YieldEvent(1, EventTypeOf(p), p)>>
        /\ file = flow.respText
        /\ body = flow.respText
        /\ lines = << <<DATA, J(p)>> >>
        /\ idx = 1
        /\ payload = p
        /\ event_type = EventTypeOf(p)
        /\ model = Unset
        /\ reasoning_effort = Unset
        /\ exc = Unset

NextExtract ==
    \/ ResponseLoopBody
    \/ GenExhausted

SpecExtract == InitExtract /\ [][NextExtract]_vars

---------------------------------------------------------------------------
(* Properties *)

EventsOf(t, kind) == SelectSeq(t, LAMBDA e : e.ev = kind)

\* a line of the body on which the generator has nothing to decode
Inert(raw) ==
    \/ ~StartsWithData(Strip(raw))
    \/ PayloadOf(Strip(raw)) \in {<<>>, <<DONE>>}

\* a data: line whose payload json.loads rejects
DecodeFails(raw) ==
    ~Inert(raw) /\ IsRaise(JsonLoadsStr(PayloadOf(Strip(raw))))

\* a data: line whose payload is a JSON object
ValidObjectLine(raw) ==
    /\ ~Inert(raw)
    /\ ~IsRaise(JsonLoadsStr(PayloadOf(Strip(raw))))
    /\ IsDict(JsonLoadsStr(PayloadOf(Strip(raw))))

\* the generator ran to its own end: exhausted, or raised inside itself
GeneratorOver ==
    /\ cb = "response"
    /\ \/ pc = "done" /\ body # Unset
       \/ pc = "raised" /\ exc.at \in {28, 40}

\* C1: response(flow) never raises to the host, whatever the response body:
\* absent, empty, or data: lines carrying any JSON value.
C1_ResponseNeverRaises ==
    cb = "response" => pc # "raised"

\* C2: request(flow) never raises: it ends normally, having logged at most
\* one codex_request line, whatever the request body.
C2_RequestNeverRaises ==
    cb = "request" =>
        /\ pc # "raised"
        /\ Len(EventsOf(trace, "codex_request")) <= 1

\* C3: a data: line that fails JSON decoding gets a warning and never ends
\* the iteration: once the generator is over, every line after a decode
\* failure it went through that is a valid data: JSON object has been yielded.
C3_DecodeFailureNeverEndsIteration ==
    GeneratorOver =>
        \A i \in 1..idx : DecodeFails(lines[i]) =>
            /\ \E e \in {trace[k] : k \in 1..Len(trace)} :
                   e.ev = "warn" /\ e.line = i
            /\ \A j \in (i + 1)..Len(lines) : ValidObjectLine(lines[j]) =>
                   \E e \in {trace[k] : k \in 1..Len(trace)} :
                       e.ev = "yield" /\ e.line = j

\* C4: a line that does not start with data: after trimming, or whose payload
\* is empty or [DONE], yields nothing and never reaches json.loads; a body
\* without data: lines yields the empty sequence.
C4_InertLinesYieldNothing ==
    cb = "response" =>
        /\ \A k \in 1..Len(trace) :
               trace[k].ev \in {"json.loads", "yield", "warn"} =>
                   ~Inert(lines[trace[k].line])
        /\ (\A i \in 1..Len(lines) : ~StartsWithData(Strip(lines[i]))) =>
               EventsOf(trace, "yield") = <<>>

C4_Witness ==
    /\ cb = "response" /\ pc = "done"
    /\ \E i \in 1..Len(lines) : /\ StartsWithData(Strip(lines[i]))
                                /\ PayloadOf(Strip(lines[i])) = <<DONE>>
    /\ \E i \in 1..Len(lines) : ~StartsWithData(Strip(lines[i]))
                                   /\ lines[i] # <<>>
    /\ Len(EventsOf(trace, "yield")) = 1


\* C5 as stated: every invocation of response(flow) emits the summary line
\* exactly once, classified or not, before anything else it does.
C5_SummaryOnEveryInvocation ==
    (cb = "response" /\ Terminated) =>
        /\ Len(EventsOf(trace, "codex_response")) = 1
        /\ trace[1] = SummaryLine(flow)

\* C5, amended: every invocation of response(flow) on a flow that has a
\* response emits the summary line exactly once, classified or not, and
\* before any body read, side-file write or codex_sse_model line; when
\* flow.response is absent the callback returns without emitting anything.
C5_SummaryWhenResponsePresent ==
    (cb = "response" /\ pc # "entry") =>
        IF flow.response = Bool(TRUE)
        THEN /\ Len(EventsOf(trace, "codex_response")) = 1
             /\ trace[1] = SummaryLine(flow)
        ELSE trace = <<>> /\ pc = "done"

C5_Witness ==
    /\ cb = "response" /\ Terminated
    /\ Len(trace) > 3
    /\ trace[1] = SummaryLine(flow)
    /\ trace[2] = ReadEvent
    /\ EventsOf(trace, "codex_sse_model") # <<>>

\* C6: a body read, a side-file write, a codex_sse_model line or a
\* codex_request line happens only for a flow whose URL contains both
\* chatgpt.com and /backend-api/codex, and a codex_request line only when
\* the method is POST.
C6_ClassificationGates ==
    /\ \A k \in 1..Len(trace) :
           trace[k].ev \in {"get_text", "write_text", "codex_sse_model",
                            "codex_request"} =>
               /\ \E i \in 1..Len(flow.url) : flow.url[i] = "chatgpt.com"
               /\ \E i \in 1..Len(flow.url) : flow.url[i] = "/backend-api/codex"
               /\ trace[k].ev = "codex_request" => flow.method = Str("POST")
    /\ file # NoFile =>
           /\ \E i \in 1..Len(flow.url) : flow.url[i] = "chatgpt.com"
           /\ \E i \in 1..Len(flow.url) : flow.url[i] = "/backend-api/codex"

C6_Witness ==
    /\ Terminated
    /\ \E i \in 1..Len(flow.url) : flow.url[i] = "chatgpt.com"
    /\ \E i \in 1..Len(flow.url) : flow.url[i] = "/backend-api/codex"
    /\ EventsOf(trace, "codex_sse_model") # <<>>
    /\ file = body

\* empty in Python's sense: the values `if x:` and `x or y` treat as false
Empty(v) ==
    v \in {None, Str(""), Num(0), Bool(FALSE), Arr(<<>>), Obj(<<>>)}

\* the loop body has run on `payload`
Extracted == cb = "response" /\ model # Unset /\ pc # "loop"

\* C7: _extract_model returns the top-level model when present and
\* non-empty; otherwise response.model when response is present and is an
\* object; otherwise no model.
C7_ExtractModelPrefersTopLevel ==
    Extracted =>
        IF HasKey(payload, "model") /\ ~Empty(Get(payload, "model"))
        THEN model = Get(payload, "model")
        ELSE IF HasKey(payload, "response") /\ IsDict(Get(payload, "response"))
        THEN model = (IF HasKey(Get(payload, "response"), "model")
                      THEN Get(Get(payload, "response"), "model")
                      ELSE None)
        ELSE model = None

C7_Witness ==
    /\ Extracted
    /\ model = Str("gpt-5")
    /\ IsDict(Get(payload, "response"))
    /\ Get(Get(payload, "response"), "model") = Str("gpt-5-mini")

\* the reasoning value C8 resolves: response.reasoning first, then
\* response.metadata.reasoning
ClaimedReasoning(r) ==
    IF ~Empty(Get(r, "reasoning")) THEN Get(r, "reasoning")
    ELSE IF IsDict(Get(r, "metadata")) THEN Get(Get(r, "metadata"), "reasoning")
    ELSE None

\* the reasoning effort C8 reports for a payload; an effort that is null or
\* empty counts as absent, as it does for the top-level model
ClaimedEffort(p) ==
    IF ~IsDict(Get(p, "response")) THEN None
    ELSE IF ~IsDict(ClaimedReasoning(Get(p, "response"))) THEN None
    ELSE IF ~Empty(Get(ClaimedReasoning(Get(p, "response")), "effort"))
         THEN Get(ClaimedReasoning(Get(p, "response")), "effort")
    ELSE Get(ClaimedReasoning(Get(p, "response")), "effort_level")

\* C8: reasoning effort is resolved only when response is an object, from
\* response.reasoning first and response.metadata.reasoning after it; of an
\* object the effort field is reported, effort_level only if effort is
\* absent; in every other case the reasoning effort is absent.
C8_ReasoningEffortLookup ==
    Extracted =>
        /\ pc # "raised"
        /\ reasoning_effort = ClaimedEffort(payload)

\* C9: the log lines of response(flow) on the same flow and body are the
\* same whether the side-file write succeeds or fails, and the callback ends
\* the same way.
C9_WriteFailureLeavesLogAlone ==
    (cb = "response" /\ prev # NoPrev /\ Terminated) =>
        /\ LogOf(trace) = prev.log
        /\ pc = prev.outcome

C9_Witness ==
    /\ cb = "response" /\ prev # NoPrev /\ pc = "done"
    /\ file = flow.respText
    /\ \E k \in 1..Len(trace) : trace[k] = WriteEvent(FALSE)
    /\ EventsOf(trace, "codex_sse_model") # <<>>

\* C10: the codex_sse_model lines are, in order, exactly the yielded pairs
\* whose extracted model is non-empty, each carrying that pair's event type
\* (the payload's type, or unknown).
C10_ModelLinesMatchYields ==
    (cb = "response" /\ pc \in {"gen", "done", "raised"}) =>
        LET ys == SelectSeq(EventsOf(trace, "yield"),
                            LAMBDA y : ~Empty(ExtractModel(y.payload)))
            ms == EventsOf(trace, "codex_sse_model")
        IN  /\ Len(ms) = Len(ys)
            /\ \A k \in 1..Len(ms) :
                   /\ ms[k].model = ExtractModel(ys[k].payload)
                   /\ ms[k].event = GetD(ys[k].payload, "type", Str("unknown"))

====
